---- MODULE Spec2Model ----
(***************************************************************************)
(* Significant-location pipeline of main.py: the spatial merger            *)
(* (smart_merge, with the place summary it reads and the merge map built   *)
(* from its result) and the interval collapser (collapse_visits, with the  *)
(* post-filter of merged_summary).                                         *)
(*                                                                         *)
(* Timestamps are whole minutes.  A coordinate is a position in metres     *)
(* along one meridian, so that the geodesic distance of two centroids is   *)
(* the absolute difference of their positions.                             *)
(***************************************************************************)
EXTENDS Integers, Sequences, FiniteSets, TLC

\* ---- program constants ----
distance_threshold_m == 130
min_visits == 2
heavy_duration_min == 700
significant_visits == 2

\* ---- bounds of the model ----
\* rows of df_visits handed to smart_merge
MaxVisits == 5
\* visits in one group handed to collapse_visits
MaxGroup == 3
\* last half-hour tick of the collapser's time axis
MaxTick == 3

VARIABLES
    pc,                  \* position in the script
    df_visits,           \* rows parsed from the location history
    place_summary,       \* one row per placeID, in groupby order
    i, j,                \* loop positions of smart_merge (1-based rows of place_summary)
    merged_group, used, merged_clusters,
    place_id_merge_map,
    group,               \* the rows collapse_visits receives
    sorted,              \* group.sort_values('start')
    k,                   \* position of the sweep in sorted
    current,             \* <<current_start, current_end>> or None
    merged,              \* windows emitted so far
    result,              \* the Series collapse_visits returns
    first_run,           \* windows and result of the first run, kept for the re-run
    retained             \* outcome of the num_visits > 2 filter

vars == <<pc, df_visits, place_summary, i, j, merged_group, used, merged_clusters, place_id_merge_map,
          group, sorted, k, current, merged, result, first_run, retained>>

mergeVars == <<df_visits, place_summary, i, j, merged_group, used, merged_clusters, place_id_merge_map>>
collapseVars == <<group, sorted, k, current, merged, result, first_run, retained>>

None == <<>>

Max(a, b) == IF a >= b THEN a ELSE b
Min(a, b) == IF a <= b THEN a ELSE b
Abs(a) == IF a >= 0 THEN a ELSE 0 - a

\***************************************************************************
\* Ingestion and place summary
\***************************************************************************

\* place identifiers; groupby('placeID') lists them in ascending order
PlaceIDs == {1, 2, 3}
\* positions (metres) a placeLocation can take: neighbours are 130, 130 and 131
\* metres apart, so that 0 and 260 are both within threshold of 130 but not of
\* each other
Coords == {0, 130, 260, 391}
\* the row appended for one visit entry
VisitRow(pid, s, e, lat) ==
    [placeID |-> pid, start |-> s, end |-> e, duration_min |-> e - s, lat |-> lat]

\* (placeID, <<start, end>>) of the rows a history can hold, in a fixed listing
\* order; the timestamps (minutes) are 0, 700 and 1400
VisitKinds ==
    LET ivs == <<(<<0, 700>>), (<<0, 1400>>), (<<700, 1400>>)>>
    IN  [n \in 1..9 |-> <<((n - 1) \div 3) + 1, ivs[((n - 1) % 3) + 1]>>]

\* one representative row order for every multiset of at most MaxVisits rows
KindLists ==
    {s \in UNION {[1..n -> 1..9] : n \in 1..MaxVisits} :
        \A a \in 1..(Len(s) - 1) : s[a] <= s[a + 1]}

RECURSIVE SumLat(_)
SumLat(rows) == IF rows = <<>> THEN 0 ELSE Head(rows).lat + SumLat(Tail(rows))

RECURSIVE SumDuration(_)
SumDuration(rows) ==
    IF rows = <<>> THEN 0 ELSE Head(rows).duration_min + SumDuration(Tail(rows))

RECURSIVE SortedIDs(_)
SortedIDs(S) ==
    IF S = {} THEN <<>>
    ELSE LET m == CHOOSE x \in S : \A y \in S : x <= y
         IN  <<m>> \o SortedIDs(S \ {m})

RowsOf(df, pid) == SelectSeq(df, LAMBDA r : r.placeID = pid)

\* df_visits.groupby('placeID').agg(lat mean, duration_min count and sum); the
\* rows of one placeID carry the same placeLocation, so the mean is exact
place_summary_of(df) ==
    LET ids == SortedIDs({df[n].placeID : n \in 1..Len(df)})
    IN  [n \in 1..Len(ids) |->
            LET rows == RowsOf(df, ids[n])
            IN  [placeID |-> ids[n],
                 lat |-> SumLat(rows) \div Len(rows),
                 num_visits |-> Len(rows),
                 total_duration_min |-> SumDuration(rows)]]

\***************************************************************************
\* smart_merge
\***************************************************************************

geodesic(lat1, lat2) == Abs(lat1 - lat2)

\* the comparison written exclusive
WithinThreshold_Strict(dist) == dist < distance_threshold_m

WithinThreshold(dist) == dist <= distance_threshold_m

\* the used set not consulted
Skips_SameOnly(pid1, pid2, u) == pid1 = pid2

Skips(pid1, pid2, u) == pid1 = pid2 \/ pid2 \in u

\* the visit count compared one too low
IsSparse_OffByOne(visits2) == Len(visits2) < min_visits - 1

IsSparse(visits2) == Len(visits2) < min_visits

\* the totals read as hours
BothHeavy_Hours(total1, total2) ==
    total1 > heavy_duration_min * 60 /\ total2 > heavy_duration_min * 60

BothHeavy(total1, total2) == total1 > heavy_duration_min /\ total2 > heavy_duration_min

\* touching intervals counted as overlapping
Overlaps_Touching(v1, v2) == Max(v1.start, v2.start) <= Min(v1.end, v2.end)

Overlaps(v1, v2) == Max(v1.start, v2.start) < Min(v1.end, v2.end)

RECURSIVE ScanV2(_, _, _)
ScanV2(v1, visits2, b) ==
    IF b > Len(visits2) THEN FALSE
    ELSE IF Overlaps(v1, visits2[b]) THEN TRUE
    ELSE ScanV2(v1, visits2, b + 1)

RECURSIVE ScanV1(_, _, _)
ScanV1(visits1, visits2, a) ==
    IF a > Len(visits1) THEN FALSE
    ELSE IF ScanV2(visits1[a], visits2, 1) THEN TRUE
    ELSE ScanV1(visits1, visits2, a + 1)

AnyOverlap(visits1, visits2) == ScanV1(visits1, visits2, 1)

place1 == place_summary[i]
place2 == place_summary[j]
visits1 == RowsOf(df_visits, place1.placeID)
visits2 == RowsOf(df_visits, place2.placeID)
dist == geodesic(place1.lat, place2.lat)
total1 == SumDuration(visits1)
total2 == SumDuration(visits2)

InInner == pc = "inner" /\ j <= Len(place_summary)
Candidate == InInner /\ ~Skips(place1.placeID, place2.placeID, used)

Absorb ==
    /\ merged_group' = Append(merged_group, place2.placeID)
    /\ used' = used \cup {place2.placeID}
    /\ j' = j + 1
    /\ UNCHANGED <<pc, df_visits, place_summary, i, merged_clusters, place_id_merge_map,
                   collapseVars>>

Pass ==
    /\ j' = j + 1
    /\ UNCHANGED <<pc, df_visits, place_summary, i, merged_group, used, merged_clusters,
                   place_id_merge_map, collapseVars>>

OuterSkip ==
    /\ pc = "outer" /\ i <= Len(place_summary)
    /\ place1.placeID \in used
    /\ i' = i + 1
    /\ UNCHANGED <<pc, df_visits, place_summary, j, merged_group, used, merged_clusters,
                   place_id_merge_map, collapseVars>>

OuterOpen ==
    /\ pc = "outer" /\ i <= Len(place_summary)
    /\ place1.placeID \notin used
    /\ merged_group' = <<place1.placeID>>
    /\ j' = 1
    /\ pc' = "inner"
    /\ UNCHANGED <<df_visits, place_summary, i, used, merged_clusters, place_id_merge_map,
                   collapseVars>>

InnerSkip ==
    /\ InInner
    /\ Skips(place1.placeID, place2.placeID, used)
    /\ Pass

InnerFar ==
    /\ Candidate
    /\ ~WithinThreshold(dist)
    /\ Pass

InnerSparse ==
    /\ Candidate
    /\ WithinThreshold(dist)
    /\ IsSparse(visits2)
    /\ Absorb

InnerHeavy ==
    /\ Candidate
    /\ WithinThreshold(dist)
    /\ ~IsSparse(visits2)
    /\ BothHeavy(total1, total2)
    /\ Absorb

InnerOverlap ==
    /\ Candidate
    /\ WithinThreshold(dist)
    /\ ~IsSparse(visits2)
    /\ ~BothHeavy(total1, total2)
    /\ AnyOverlap(visits1, visits2)
    /\ Absorb

InnerNoOverlap ==
    /\ Candidate
    /\ WithinThreshold(dist)
    /\ ~IsSparse(visits2)
    /\ ~BothHeavy(total1, total2)
    /\ ~AnyOverlap(visits1, visits2)
    /\ Pass

CloseGroup ==
    /\ pc = "inner" /\ j > Len(place_summary)
    /\ merged_clusters' = Append(merged_clusters, merged_group)
    /\ i' = i + 1
    /\ pc' = "outer"
    /\ UNCHANGED <<df_visits, place_summary, j, merged_group, used, place_id_merge_map,
                   collapseVars>>

\* index (from 0) of the last group that lists pid: later assignments overwrite
MergeMapOf(groups) ==
    LET ids == UNION {{groups[c][m] : m \in 1..Len(groups[c])} : c \in 1..Len(groups)}
    IN  [pid \in ids |->
            (CHOOSE c \in 1..Len(groups) :
                /\ \E m \in 1..Len(groups[c]) : groups[c][m] = pid
                /\ \A d \in (c + 1)..Len(groups) :
                      \A m \in 1..Len(groups[d]) : groups[d][m] # pid) - 1]

BuildMergeMap ==
    /\ pc = "outer" /\ i > Len(place_summary)
    /\ place_id_merge_map' = MergeMapOf(merged_clusters)
    /\ pc' = "done"
    /\ UNCHANGED <<df_visits, place_summary, i, j, merged_group, used, merged_clusters,
                   collapseVars>>

CollapseIdle ==
    /\ group = <<>> /\ sorted = <<>> /\ k = 0 /\ current = None /\ merged = <<>>
    /\ result = None /\ first_run = None /\ retained = FALSE

\* the history holds at least one visit (groupby needs the placeID column) and
\* the collapser is not entered
InitMerge ==
    /\ pc = "outer"
    /\ \E ks \in KindLists :
         \E lat \in {f \in [PlaceIDs -> Coords] :
                        \A p \in PlaceIDs :
                            (\A n \in 1..Len(ks) : VisitKinds[ks[n]][1] # p) => f[p] = 0} :
            df_visits = [n \in 1..Len(ks) |->
                            LET kd == VisitKinds[ks[n]]
                            IN  VisitRow(kd[1], kd[2][1], kd[2][2], lat[kd[1]])]
    /\ place_summary = place_summary_of(df_visits)
    /\ i = 1 /\ j = 0
    /\ merged_group = <<>> /\ used = {} /\ merged_clusters = <<>>
    /\ place_id_merge_map = <<>>
    /\ CollapseIdle

NextMerge ==
    \/ OuterSkip \/ OuterOpen
    \/ InnerSkip \/ InnerFar \/ InnerSparse \/ InnerHeavy \/ InnerOverlap \/ InnerNoOverlap
    \/ CloseGroup \/ BuildMergeMap

SpecMerge == InitMerge /\ [][NextMerge]_vars

\***************************************************************************
\* collapse_visits and the post-filter
\***************************************************************************

\* A row of a group is its start and end; the coordinates, of which
\* collapse_visits only takes the mean, are left out.
\* timestamps (minutes) of the collapser's inputs: half-hour ticks
TickMinutes(t) == 30 * t
CollapseTimes == {TickMinutes(t) : t \in 0..MaxTick}

\* <<start, end>> of the rows a group can hold, listed by descending end; the
\* parser keeps a row whatever the order of its two timestamps
GroupKinds ==
    [n \in 1..((MaxTick + 1) * (MaxTick + 1)) |->
        <<TickMinutes((n - 1) % (MaxTick + 1)),
          TickMinutes(MaxTick - ((n - 1) \div (MaxTick + 1)))>>]

\* one representative row order for every multiset of at most MaxGroup rows;
\* sort_values makes the order of the rows immaterial
GroupLists ==
    {s \in UNION {[1..n -> DOMAIN GroupKinds] : n \in 0..MaxGroup} :
        \A a \in 1..(Len(s) - 1) : s[a] <= s[a + 1]}

\* group.sort_values('start'): quicksort, so rows with equal start may come
\* out in any order
sort_values(g) ==
    {[n \in 1..Len(g) |-> g[p[n]]] : p \in
        {q \in Permutations(1..Len(g)) :
            \A a \in 1..(Len(g) - 1) : g[q[a]].start <= g[q[a + 1]].start}}

\* adjacent visits not joined
Continues_Strict(visit_start, current_end) == visit_start < current_end

Continues(visit_start, current_end) == visit_start <= current_end

\* the window end overwritten by the visit's
Extend_Overwrite(current_end, visit_end) == visit_end

Extend(current_end, visit_end) == Max(current_end, visit_end)

RECURSIVE total_minutes(_)
total_minutes(windows) ==
    IF windows = <<>> THEN 0
    ELSE (Head(windows)[2] - Head(windows)[1]) + total_minutes(Tail(windows))

Series(windows) ==
    [num_visits |-> Len(windows), total_duration_min |-> total_minutes(windows)]

IsSignificant(row) == row.num_visits > significant_visits

visit == sorted[k]

SortValues ==
    /\ pc = "sort"
    /\ sorted' \in sort_values(group)
    /\ k' = 1 /\ current' = None /\ merged' = <<>>
    /\ pc' = "sweep"
    /\ UNCHANGED <<mergeVars, group, result, first_run, retained>>

SweepOpen ==
    /\ pc = "sweep" /\ k <= Len(sorted)
    /\ current = None
    /\ current' = <<visit.start, visit.end>>
    /\ k' = k + 1
    /\ UNCHANGED <<pc, mergeVars, group, sorted, merged, result, first_run, retained>>

SweepExtend ==
    /\ pc = "sweep" /\ k <= Len(sorted)
    /\ current # None
    /\ Continues(visit.start, current[2])
    /\ current' = <<current[1], Extend(current[2], visit.end)>>
    /\ k' = k + 1
    /\ UNCHANGED <<pc, mergeVars, group, sorted, merged, result, first_run, retained>>

SweepEmit ==
    /\ pc = "sweep" /\ k <= Len(sorted)
    /\ current # None
    /\ ~Continues(visit.start, current[2])
    /\ merged' = Append(merged, current)
    /\ current' = <<visit.start, visit.end>>
    /\ k' = k + 1
    /\ UNCHANGED <<pc, mergeVars, group, sorted, result, first_run, retained>>

Finish ==
    /\ pc = "sweep" /\ k > Len(sorted)
    /\ merged' = IF current # None THEN Append(merged, current) ELSE merged
    /\ result' = Series(merged')
    /\ pc' = "returned"
    /\ UNCHANGED <<mergeVars, group, sorted, k, current, first_run, retained>>

PostFilter ==
    /\ pc = "returned"
    /\ retained' = IsSignificant(result)
    /\ pc' = "filtered"
    /\ UNCHANGED <<mergeVars, group, sorted, k, current, merged, result, first_run>>

\* collapse_visits applied once more, to the windows it has just emitted
Rerun ==
    /\ pc = "filtered" /\ first_run = None
    /\ first_run' = [group |-> group, windows |-> merged, result |-> result]
    /\ group' = [n \in 1..Len(merged) |-> [start |-> merged[n][1], end |-> merged[n][2]]]
    /\ pc' = "sort"
    /\ UNCHANGED <<mergeVars, sorted, k, current, merged, result, retained>>

MergeIdle ==
    /\ df_visits = <<>> /\ place_summary = <<>> /\ i = 0 /\ j = 0
    /\ merged_group = <<>> /\ used = {} /\ merged_clusters = <<>>
    /\ place_id_merge_map = <<>>

InitCollapse ==
    /\ pc = "sort"
    /\ MergeIdle
    /\ \E ks \in GroupLists :
         group = [n \in 1..Len(ks) |->
                     [start |-> GroupKinds[ks[n]][1], end |-> GroupKinds[ks[n]][2]]]
    /\ sorted = <<>> /\ k = 0 /\ current = None /\ merged = <<>>
    /\ result = None /\ first_run = None /\ retained = FALSE

NextCollapse ==
    \/ SortValues \/ SweepOpen \/ SweepExtend \/ SweepEmit \/ Finish
    \/ PostFilter \/ Rerun

SpecCollapse == InitCollapse /\ [][NextCollapse]_vars

\***************************************************************************
\* Properties of smart_merge
\***************************************************************************

SummaryIDs == {place_summary[n].placeID : n \in 1..Len(place_summary)}
SummaryRow(pid) == place_summary[CHOOSE n \in 1..Len(place_summary) :
                                     place_summary[n].placeID = pid]
RowIdx(pid) == {n \in 1..Len(df_visits) : df_visits[n].placeID = pid}

\* the quantities the merge rules speak of, read off the inputs
CentroidDistance(p, q) ==
    LET d == SummaryRow(p).lat - SummaryRow(q).lat IN IF d < 0 THEN 0 - d ELSE d
VisitCount(p) == Cardinality(RowIdx(p))
RawDuration(p) == SummaryRow(p).total_duration_min
StrictOverlap(p, q) ==
    \E a \in RowIdx(p), b \in RowIdx(q) :
        LET latest_start == IF df_visits[a].start >= df_visits[b].start
                            THEN df_visits[a].start ELSE df_visits[b].start
            earliest_end == IF df_visits[a].end <= df_visits[b].end
                            THEN df_visits[a].end ELSE df_visits[b].end
        IN  latest_start < earliest_end
Touching(p, q) ==
    \E a \in RowIdx(p), b \in RowIdx(q) :
        df_visits[a].end = df_visits[b].start \/ df_visits[b].end = df_visits[a].start
DualHeavy(p, q) == RawDuration(p) > 700 /\ RawDuration(q) > 700
MergeRule(s, p) ==
    /\ CentroidDistance(s, p) <= 130
    /\ \/ VisitCount(p) < 2
       \/ DualHeavy(s, p)
       \/ StrictOverlap(s, p)

Members(g) == {g[m] : m \in 1..Len(g)}
OccurrencesIn(pid, g) == Cardinality({m \in 1..Len(g) : g[m] = pid})

RECURSIVE OccurrencesInAll(_, _)
OccurrencesInAll(pid, groups) ==
    IF groups = <<>> THEN 0
    ELSE OccurrencesIn(pid, Head(groups)) + OccurrencesInAll(pid, Tail(groups))

\* groups that exist so far: the closed ones and the one being filled
GroupsSoFar ==
    IF pc = "inner" THEN Append(merged_clusters, merged_group) ELSE merged_clusters

\* pid was absorbed (as a non-seed member) by one of the first c - 1 groups
AbsorbedBefore(pid, groups, c) ==
    \E d \in 1..(c - 1) : pid \in Members(groups[d]) /\ groups[d][1] # pid

\* the current seed and the candidates its scan has already decided
Seed == merged_group[1]
AbsorbedNow(p) == \E m \in 2..Len(merged_group) : merged_group[m] = p
Decided ==
    {p \in {place_summary[n].placeID : n \in 1..(j - 1)} \ {Seed} :
        AbsorbedNow(p) \/ p \notin used}

\* C1: when smart_merge has returned, every place identifier of the summary
\* appears in exactly one group of the result.
C1_Partition ==
    pc = "done" =>
        \A pid \in SummaryIDs : OccurrencesInAll(pid, merged_clusters) = 1

\* C4 as stated: a sparse place2 within threshold of a place1 that has at least
\* min_visits visits always ends in a group together with place1.
C4_SparseAlwaysJoins ==
    pc = "done" =>
        \A p1 \in SummaryIDs, p2 \in SummaryIDs :
            (/\ p1 # p2
             /\ VisitCount(p1) >= 2 /\ VisitCount(p2) < 2
             /\ CentroidDistance(p1, p2) <= 130)
            => \E c \in 1..Len(merged_clusters) :
                   p1 \in Members(merged_clusters[c]) /\ p2 \in Members(merged_clusters[c])

\* C4 amended: a sparse place2 within threshold of a place1 with at least
\* min_visits visits is in the group place1 opens unless an earlier seed absorbed
\* place2 first, whatever the overlaps and whichever comes first; when the two
\* are the whole summary they always share a group.
C4_SparseAbsorption ==
    pc = "done" =>
        \A p1 \in SummaryIDs, p2 \in SummaryIDs :
            (/\ p1 # p2
             /\ VisitCount(p1) >= 2 /\ VisitCount(p2) < 2
             /\ CentroidDistance(p1, p2) <= 130)
            => /\ \A c \in 1..Len(merged_clusters) :
                     (merged_clusters[c][1] = p1 /\ ~AbsorbedBefore(p2, merged_clusters, c))
                     => p2 \in Members(merged_clusters[c])
               /\ SummaryIDs = {p1, p2} =>
                     \E c \in 1..Len(merged_clusters) :
                         {p1, p2} \subseteq Members(merged_clusters[c])

C4_Witness ==
    /\ pc = "done"
    /\ \E p1 \in SummaryIDs, p2 \in SummaryIDs :
          /\ p2 < p1
          /\ VisitCount(p1) >= 2 /\ VisitCount(p2) < 2
          /\ CentroidDistance(p1, p2) <= 130
          /\ ~StrictOverlap(p1, p2)
          /\ \E c \in 1..Len(merged_clusters) :
                merged_clusters[c][1] = p1 /\ p2 \in Members(merged_clusters[c])

\* C5 as stated: two places within threshold, each over 700 minutes and each
\* with at least min_visits visits, always end in a common group.
C5_HeavyAlwaysJoin ==
    pc = "done" =>
        \A p1 \in SummaryIDs, p2 \in SummaryIDs :
            (/\ p1 # p2
             /\ VisitCount(p1) >= 2 /\ VisitCount(p2) >= 2
             /\ RawDuration(p1) > 700 /\ RawDuration(p2) > 700
             /\ CentroidDistance(p1, p2) <= 130)
            => \E c \in 1..Len(merged_clusters) :
                   p1 \in Members(merged_clusters[c]) /\ p2 \in Members(merged_clusters[c])

\* C5 amended: of two such heavy places, the one that opens a group has the
\* other in it unless an earlier seed absorbed the other first, overlap or not;
\* when the two are the whole summary they always share a group.
C5_HeavyDualMerge ==
    pc = "done" =>
        \A p1 \in SummaryIDs, p2 \in SummaryIDs :
            (/\ p1 # p2
             /\ VisitCount(p1) >= 2 /\ VisitCount(p2) >= 2
             /\ RawDuration(p1) > 700 /\ RawDuration(p2) > 700
             /\ CentroidDistance(p1, p2) <= 130)
            => /\ \A c \in 1..Len(merged_clusters) :
                     (merged_clusters[c][1] = p1 /\ ~AbsorbedBefore(p2, merged_clusters, c))
                     => p2 \in Members(merged_clusters[c])
               /\ SummaryIDs = {p1, p2} =>
                     \E c \in 1..Len(merged_clusters) :
                         {p1, p2} \subseteq Members(merged_clusters[c])

C5_Witness ==
    /\ pc = "done"
    /\ \E p1 \in SummaryIDs, p2 \in SummaryIDs :
          /\ p1 # p2
          /\ VisitCount(p1) >= 2 /\ VisitCount(p2) >= 2
          /\ RawDuration(p1) > 700 /\ RawDuration(p2) > 700
          /\ CentroidDistance(p1, p2) <= 130
          /\ ~StrictOverlap(p1, p2)
          /\ \E c \in 1..Len(merged_clusters) :
                merged_clusters[c][1] = p1 /\ p2 \in Members(merged_clusters[c])

\* C6 as stated: a candidate exactly distance_threshold_m from the seed is
\* merged, and a candidate farther away is not.
C6_AtThresholdAlwaysMerges ==
    pc = "inner" =>
        \A p \in Decided :
            /\ CentroidDistance(Seed, p) = 130 => AbsorbedNow(p)
            /\ CentroidDistance(Seed, p) > 130 => ~AbsorbedNow(p)

\* C6 amended: a candidate exactly distance_threshold_m from the seed counts as
\* within the threshold, so it is merged exactly when it is sparse, or both are
\* heavy, or their visits overlap; a candidate farther away is never merged.
C6_ThresholdBoundary ==
    pc = "inner" =>
        \A p \in Decided :
            /\ CentroidDistance(Seed, p) = 130 =>
                  (AbsorbedNow(p) <=>
                      (VisitCount(p) < 2 \/ DualHeavy(Seed, p) \/ StrictOverlap(Seed, p)))
            /\ CentroidDistance(Seed, p) > 130 => ~AbsorbedNow(p)

C6_Witness ==
    /\ pc = "inner"
    /\ \E p \in Decided, q \in Decided :
          /\ CentroidDistance(Seed, p) = 130 /\ AbsorbedNow(p)
          /\ CentroidDistance(Seed, q) = 131 /\ ~AbsorbedNow(q)
          /\ VisitCount(q) < 2

\* C8: a candidate within threshold that has at least min_visits visits, the
\* pair not both over 700 minutes, is added to the seed's group if and only if
\* some visit of the seed strictly overlaps some visit of the candidate, and it
\* is added once.
C8_TimeOverlapRule ==
    pc = "inner" =>
        \A p \in Decided :
            (/\ CentroidDistance(Seed, p) <= 130
             /\ VisitCount(p) >= 2
             /\ ~DualHeavy(Seed, p))
            => /\ AbsorbedNow(p) <=> StrictOverlap(Seed, p)
               /\ OccurrencesIn(p, merged_group) <= 1

C8_Witness ==
    /\ pc = "inner"
    /\ \E p \in Decided, q \in Decided :
          /\ CentroidDistance(Seed, p) <= 130 /\ CentroidDistance(Seed, q) <= 130
          /\ VisitCount(p) >= 2 /\ VisitCount(q) >= 2
          /\ ~DualHeavy(Seed, p) /\ ~DualHeavy(Seed, q)
          /\ StrictOverlap(Seed, p) /\ AbsorbedNow(p)
          /\ Touching(Seed, q) /\ ~StrictOverlap(Seed, q) /\ ~AbsorbedNow(q)

\* every group so far holds exactly the places its seed's rule admits among those
\* no earlier seed had absorbed (the open group: among the candidates decided)
FirstMatchWins ==
    \A c \in 1..Len(GroupsSoFar) :
        LET g == GroupsSoFar[c]
            open == pc = "inner" /\ c = Len(GroupsSoFar)
        IN  \A p \in (IF open THEN Decided \cup Members(g) ELSE SummaryIDs) \ {g[1]} :
                /\ OccurrencesIn(p, g) <= 1
                /\ p \in Members(g) <=>
                      (MergeRule(g[1], p) /\ ~AbsorbedBefore(p, GroupsSoFar, c))

\* an absorbed place is in exactly one group as a non-seed member and seeds no
\* later group
AbsorbedOnce ==
    \A p \in used :
        \E c \in 1..Len(GroupsSoFar) :
            /\ p \in Members(GroupsSoFar[c]) /\ GroupsSoFar[c][1] # p
            /\ \A d \in (c + 1)..Len(GroupsSoFar) : p \notin Members(GroupsSoFar[d])

UsedIsFinal ==
    \A p \in used :
        /\ p \in used'
        /\ OccurrencesInAll(p, GroupsSoFar') = OccurrencesInAll(p, GroupsSoFar)

\* C9: once a place is in used it stays there, is added to no later group and
\* opens none; each absorbed place sits in the group of the first seed, in
\* summary order, whose merge rule (seed against candidate) it satisfies.
C9_FirstMatchWins == [](FirstMatchWins /\ AbsorbedOnce) /\ [][UsedIsFinal]_vars

C9_Witness ==
    /\ pc = "done"
    /\ \E p \in used, c \in 1..Len(merged_clusters), d \in 1..Len(merged_clusters) :
          LET first == merged_clusters[c][1]
              later == merged_clusters[d][1]
          IN  /\ c < d
              /\ p \in Members(merged_clusters[c]) /\ first # p
              /\ MergeRule(later, p) /\ p \notin Members(merged_clusters[d])
              /\ MergeRule(p, later) /\ ~MergeRule(first, later)
              /\ later \notin Members(merged_clusters[c])

\***************************************************************************
\* Properties of collapse_visits
\***************************************************************************

Returned == pc \in {"returned", "filtered"}
WellFormed(g) == \A n \in 1..Len(g) : g[n].start <= g[n].end
\* the rows the first application received
Original == IF first_run = None THEN group ELSE first_run.group

GroupIntervals == {<<group[n].start, group[n].end>> : n \in 1..Len(group)}
Windows == {merged[n] : n \in 1..Len(merged)}
\* instants and half-hour cells a set of intervals covers
PointsOf(ivs) == {t \in CollapseTimes : \E iv \in ivs : iv[1] <= t /\ t <= iv[2]}
CellsOf(ivs) ==
    {t \in CollapseTimes : \E iv \in ivs : iv[1] <= t /\ t + TickMinutes(1) <= iv[2]}
Separate(w, v) == w[2] < v[1] \/ v[2] < w[1]
PairwiseApart ==
    \A a \in 1..Len(merged), b \in 1..Len(merged) :
        a # b => Separate(merged[a], merged[b])

RECURSIVE RawSum(_)
RawSum(g) == IF g = <<>> THEN 0 ELSE (Head(g).end - Head(g).start) + RawSum(Tail(g))

\* C2: for visits with start <= end the emitted windows are pairwise disjoint,
\* cover exactly what the visits cover, total_duration_min is the length of
\* that union and num_visits the number of windows.
C2_NoDoubleCounting ==
    (Returned /\ WellFormed(Original)) =>
        /\ PairwiseApart
        /\ PointsOf(Windows) = PointsOf(GroupIntervals)
        /\ CellsOf(Windows) = CellsOf(GroupIntervals)
        /\ result.total_duration_min =
              TickMinutes(1) * Cardinality(CellsOf(GroupIntervals))
        /\ result.num_visits = Len(merged)

C2_Witness ==
    /\ Returned /\ first_run = None
    /\ Len(group) = 2
    /\ GroupIntervals = {<<0, 60>>, <<30, 90>>}
    /\ merged = <<(<<0, 90>>)>>
    /\ result = [num_visits |-> 1, total_duration_min |-> 90]

C3_IdempotentOnValidVisits ==
    (Returned /\ WellFormed(Original)) =>
        /\ PairwiseApart
        /\ first_run # None => (merged = first_run.windows /\ result = first_run.result)

\* C7: a visit with end < start never reaches the sweep, so no window and no
\* total has a negative duration.
C7_MalformedRejected ==
    /\ pc \in {"sweep", "returned", "filtered"} => WellFormed(group)
    /\ Returned =>
          /\ \A n \in 1..Len(merged) : merged[n][1] <= merged[n][2]
          /\ result.total_duration_min >= 0

\* C10: for visits with start <= end, num_visits is at most the number of
\* visits (0 for none, at least 1 otherwise) and total_duration_min lies
\* between the longest visit and the sum of all visits.
C10_CollapseBounds ==
    (Returned /\ WellFormed(Original)) =>
        /\ result.num_visits <= Len(group)
        /\ Len(group) = 0 => result.num_visits = 0
        /\ Len(group) > 0 => result.num_visits >= 1
        /\ result.total_duration_min <= RawSum(group)
        /\ \A n \in 1..Len(group) :
              result.total_duration_min >= group[n].end - group[n].start

C10_Witness ==
    /\ Returned /\ first_run = None /\ WellFormed(group)
    /\ Len(group) = 3
    /\ result.num_visits = 2
    /\ result.total_duration_min < RawSum(group)
    /\ \A n \in 1..Len(group) :
          result.total_duration_min > group[n].end - group[n].start

====
